---------------------------- MODULE Spec2Model ----------------------------
(***************************************************************************)
(* A model of differ.py, the HTML structural diffing engine.               *)
(*                                                                         *)
(* Scores are Python floats in the program; here they are exact rationals  *)
(* <<numerator, denominator>> in lowest terms, so that two scores are      *)
(* equal exactly when the tuples are equal.  The 0-based half-open index   *)
(* conventions of Python and difflib are kept: element i of a Python list  *)
(* s is s[i + 1] here.                                                     *)
(***************************************************************************)
EXTENDS Integers, Sequences, FiniteSets, TLC

VARIABLES
    oldDoc, newDoc,   \* the two parsed documents (old_soup, new_soup)
    oldL, newL,       \* the two landmark sequences
    oldS, newS,       \* the two skeleton sequences
    l_diff, s_diff,   \* the two sub-scores of diff_score
    score,            \* the blended score main() prints
    label,            \* the interpretation main() prints
    pc                \* position in the pipeline

vars == <<oldDoc, newDoc, oldL, newL, oldS, newS, l_diff, s_diff, score, label, pc>>

---------------------------------------------------------------------------
(* Exact arithmetic standing for the float arithmetic of the program.      *)

Abs(x) == IF x < 0 THEN -x ELSE x

Max(x, y) == IF x >= y THEN x ELSE y

RECURSIVE GCD(_, _)
GCD(x, y) == IF y = 0 THEN x ELSE GCD(y, x % y)

Rat(n, d) == LET g == GCD(Abs(n), d) IN <<n \div g, d \div g>>

RAdd(p, q) == Rat(p[1] * q[2] + q[1] * p[2], p[2] * q[2])

RSub(p, q) == Rat(p[1] * q[2] - q[1] * p[2], p[2] * q[2])

RMul(p, q) == Rat(p[1] * q[1], p[2] * q[2])

RLt(p, q) == p[1] * q[2] < q[1] * p[2]

RLe(p, q) == p[1] * q[2] <= q[1] * p[2]

Zero == Rat(0, 1)

One == Rat(1, 1)

Range(s) == {s[x] : x \in DOMAIN s}

Min(S) == CHOOSE x \in S : \A y \in S : x <= y

\* s[lo:hi] of Python
Slice(s, lo, hi) == [x \in 1..(hi - lo) |-> s[lo + x]]

---------------------------------------------------------------------------
(* Module constants of differ.py.                                          *)

LANDMARK_TAGS == {"header", "nav", "main", "aside", "footer", "section", "article"}

IGNORED_TAGS == {"script", "style", "link", "meta", "noscript", "template"}

LANDMARK_WEIGHT == Rat(40, 100)

SKELETON_WEIGHT == Rat(60, 100)

TAG_WEIGHT == Rat(30, 100)

CLASS_WEIGHT == Rat(30, 100)

ID_WEIGHT == Rat(20, 100)

CHILD_COUNT_WEIGHT == Rat(20, 100)

\* The dataclass NodeProfile: classes is a tuple, compared element by element.
NodeProfile(tag, id_attr, classes, child_count) ==
    [tag |-> tag, id_attr |-> id_attr, classes |-> classes, child_count |-> child_count]

---------------------------------------------------------------------------
(* difflib.SequenceMatcher(None, a, b), as differ.py constructs it: no     *)
(* junk predicate, autojunk left at its default.                           *)

\* The autojunk heuristic applies to a second sequence of at least this length
AutojunkMinLen == 200

\* ... and drops from b2j the elements occurring more than len(b) // this + 1 times
AutojunkDivisor == 100

\* SequenceMatcher.__chain_b: the indices of each element of b, the popular
\* elements purged.
chain_b(b) ==
    LET n == Len(b)
        idxs(elt) == {j \in 0..(n - 1) : b[j + 1] = elt}
        ntest == n \div AutojunkDivisor + 1
        popular == IF n >= AutojunkMinLen
                   THEN {elt \in Range(b) : Cardinality(idxs(elt)) > ntest}
                   ELSE {}
    IN  [elt \in Range(b) \ popular |-> idxs(elt)]

SequenceMatcher(a, b) == [a |-> a, b |-> b, b2j |-> chain_b(b)]

\* The dict j2len is the set of its items <<j, length>>; this is dict.get(j, 0)
j2lenget(j2len, j) ==
    IF \E item \in j2len : item[1] = j
    THEN (CHOOSE item \in j2len : item[1] = j)[2]
    ELSE 0

\* One pass of the outer loop of find_longest_match, for row i of a; st is
\* [j2len, best] with best = <<besti, bestj, bestsize>>.  Within the row j
\* ascends and best is replaced only by a strictly longer run, so the row
\* leaves the lowest j among those reaching the row's longest new run.
flm_row(m, i, blo, bhi, st) ==
    LET elt == m.a[i + 1]
        js == IF elt \in DOMAIN m.b2j
              THEN {j \in m.b2j[elt] : j >= blo /\ j < bhi}
              ELSE {}
        newj2len == {<<j, j2lenget(st.j2len, j - 1) + 1>> : j \in js}
        longer == {item \in newj2len : item[2] > st.best[3]}
        kmax == CHOOSE k \in {item[2] : item \in longer} :
                    \A item \in longer : item[2] <= k
        jbest == Min({item[1] : item \in {x \in longer : x[2] = kmax}})
    IN  [j2len |-> newj2len,
         best |-> IF longer = {} THEN st.best
                  ELSE <<i - kmax + 1, jbest - kmax + 1, kmax>>]

\* The outer loop of find_longest_match over rows lo .. hi - 1, in order (the
\* range is halved only to keep the evaluation shallow).
RECURSIVE flm_rows(_, _, _, _, _, _)
flm_rows(m, lo, hi, blo, bhi, st) ==
    IF lo >= hi THEN st
    ELSE IF hi - lo = 1 THEN flm_row(m, lo, blo, bhi, st)
    ELSE LET mid == (lo + hi) \div 2
             half == flm_rows(m, lo, mid, blo, bhi, st)
         IN  IF half.best[3] < 0 THEN half
             ELSE flm_rows(m, mid, hi, blo, bhi, half)

\* The first extension loop of find_longest_match (bjunk is empty): the number
\* of times its body runs is the first t at which its condition fails.
flm_extend_back(m, alo, blo, best) ==
    LET limit == IF best[1] - alo <= best[2] - blo
                 THEN best[1] - alo ELSE best[2] - blo
        t == Min({u \in 0..limit :
                    u = limit \/ m.a[best[1] - u] # m.b[best[2] - u]})
    IN  <<best[1] - t, best[2] - t, best[3] + t>>

\* The second extension loop of find_longest_match, likewise
flm_extend_fwd(m, ahi, bhi, best) ==
    LET enda == best[1] + best[3]
        endb == best[2] + best[3]
        limit == IF ahi - enda <= bhi - endb THEN ahi - enda ELSE bhi - endb
        t == Min({u \in 0..limit :
                    u = limit \/ m.a[enda + u + 1] # m.b[endb + u + 1]})
    IN  <<best[1], best[2], best[3] + t>>

find_longest_match(m, alo, ahi, blo, bhi) ==
    LET scanned == flm_rows(m, alo, ahi, blo, bhi,
                            [j2len |-> {}, best |-> <<alo, blo, 0>>]).best
    IN  flm_extend_fwd(m, ahi, bhi, flm_extend_back(m, alo, blo, scanned))

\* A slip: the sub-problem right of the block found never queued
RECURSIVE raw_matching_blocks_left_only(_, _, _, _, _)
raw_matching_blocks_left_only(m, alo, ahi, blo, bhi) ==
    LET x == find_longest_match(m, alo, ahi, blo, bhi)
        i == x[1]
        j == x[2]
        k == x[3]
    IN  IF k = 0 THEN << >>
        ELSE (IF alo < i /\ blo < j
              THEN raw_matching_blocks_left_only(m, alo, i, blo, j) ELSE << >>)
             \o << x >>

\* The queue loop of get_matching_blocks followed by its sort: the blocks of
\* the left sub-problem, the block found, the blocks of the right one.
RECURSIVE raw_matching_blocks(_, _, _, _, _)
raw_matching_blocks(m, alo, ahi, blo, bhi) ==
    LET x == find_longest_match(m, alo, ahi, blo, bhi)
        i == x[1]
        j == x[2]
        k == x[3]
    IN  IF k = 0 THEN << >>
        ELSE (IF alo < i /\ blo < j
              THEN raw_matching_blocks(m, alo, i, blo, j) ELSE << >>)
             \o << x >>
             \o (IF i + k < ahi /\ j + k < bhi
                 THEN raw_matching_blocks(m, i + k, ahi, j + k, bhi) ELSE << >>)

\* The collapse of adjacent blocks in get_matching_blocks; cur is <<i1, j1, k1>>
RECURSIVE collapse_adjacent(_, _, _)
collapse_adjacent(blocks, n, cur) ==
    IF n > Len(blocks)
    THEN IF cur[3] # 0 THEN << cur >> ELSE << >>
    ELSE LET x == blocks[n] IN
         IF cur[1] + cur[3] = x[1] /\ cur[2] + cur[3] = x[2]
         THEN collapse_adjacent(blocks, n + 1, <<cur[1], cur[2], cur[3] + x[3]>>)
         ELSE (IF cur[3] # 0 THEN << cur >> ELSE << >>)
              \o collapse_adjacent(blocks, n + 1, x)

\* A slip: the closing sentinel block left out
get_matching_blocks_no_sentinel(m) ==
    collapse_adjacent(raw_matching_blocks(m, 0, Len(m.a), 0, Len(m.b)), 1, <<0, 0, 0>>)

get_matching_blocks(m) ==
    LET la == Len(m.a)
        lb == Len(m.b)
    IN  collapse_adjacent(raw_matching_blocks(m, 0, la, 0, lb), 1, <<0, 0, 0>>)
        \o << <<la, lb, 0>> >>

Opcode(tag, i1, i2, j1, j2) == [tag |-> tag, i1 |-> i1, i2 |-> i2, j1 |-> j1, j2 |-> j2]

\* The loop of get_opcodes from matching block n on, with its i and j
RECURSIVE opcodes_from(_, _, _, _)
opcodes_from(blocks, n, i, j) ==
    IF n > Len(blocks) THEN << >>
    ELSE LET ai == blocks[n][1]
             bj == blocks[n][2]
             size == blocks[n][3]
             gap == IF i < ai /\ j < bj THEN << Opcode("replace", i, ai, j, bj) >>
                    ELSE IF i < ai THEN << Opcode("delete", i, ai, j, bj) >>
                    ELSE IF j < bj THEN << Opcode("insert", i, ai, j, bj) >>
                    ELSE << >>
             eq == IF size # 0
                   THEN << Opcode("equal", ai, ai + size, bj, bj + size) >>
                   ELSE << >>
         IN  gap \o eq \o opcodes_from(blocks, n + 1, ai + size, bj + size)

get_opcodes(m) == opcodes_from(get_matching_blocks(m), 1, 0, 0)

RECURSIVE sum_sizes(_, _)
sum_sizes(blocks, n) ==
    IF n > Len(blocks) THEN 0 ELSE blocks[n][3] + sum_sizes(blocks, n + 1)

\* A slip: the matches not doubled
ratio_not_doubled(m) ==
    LET matches == sum_sizes(get_matching_blocks(m), 1)
        length == Len(m.a) + Len(m.b)
    IN  IF length # 0 THEN Rat(matches, length) ELSE One

\* SequenceMatcher.ratio via _calculate_ratio
ratio(m) ==
    LET matches == sum_sizes(get_matching_blocks(m), 1)
        length == Len(m.a) + Len(m.b)
    IN  IF length # 0 THEN Rat(2 * matches, length) ELSE One

---------------------------------------------------------------------------
(* The parsed document (the BeautifulSoup tree), read through the          *)
(* traversal differ.py uses.  A document is the sequence of its nodes in   *)
(* document order, each with its depth below the root; a node's children   *)
(* are the nodes one level deeper that follow it before the next node at   *)
(* its own depth or above.                                                 *)

\* What Tag.get returns: None, a str, or a list of str
NoAttr == [type |-> "none", val |-> << >>]

StrAttr(v) == [type |-> "str", val |-> v]

ListAttr(v) == [type |-> "list", val |-> v]

\* isinstance(node, Tag) is the field tag; a text node or comment has tag = FALSE
Element(name, id, class) == [tag |-> TRUE, name |-> name, id |-> id, class |-> class]

TextNode == [tag |-> FALSE, name |-> "", id |-> NoAttr, class |-> NoAttr]

AtDepth(node, d) ==
    [depth |-> d, tag |-> node.tag, name |-> node.name, id |-> node.id, class |-> node.class]

\* The node kinds documents are drawn from
NodeKinds ==
    { TextNode,
      Element("body", NoAttr, NoAttr),
      Element("script", NoAttr, NoAttr),
      Element("section", StrAttr("s"), ListAttr(<<"a", "b">>)) }

\* The largest number of nodes of a document
MaxNodes == 4

\* Only an element has children
MaxNextDepth(doc) ==
    IF doc = << >> THEN 0
    ELSE IF doc[Len(doc)].tag THEN doc[Len(doc)].depth + 1
    ELSE doc[Len(doc)].depth

RECURSIVE DocsOfLen(_)
DocsOfLen(n) ==
    IF n = 0 THEN { << >> }
    ELSE UNION { { Append(doc, AtDepth(k, d)) : k \in NodeKinds, d \in 0..MaxNextDepth(doc) }
                 : doc \in DocsOfLen(n - 1) }

Docs == UNION { DocsOfLen(n) : n \in 0..MaxNodes }

\* The index of the last node of the subtree of node p
SubtreeEnd(doc, p) ==
    IF \E q \in (p + 1)..Len(doc) : doc[q].depth <= doc[p].depth
    THEN Min({q \in (p + 1)..Len(doc) : doc[q].depth <= doc[p].depth}) - 1
    ELSE Len(doc)

RECURSIVE SortedSeq(_)
SortedSeq(S) == IF S = {} THEN << >> ELSE << Min(S) >> \o SortedSeq(S \ {Min(S)})

\* element.children: the child nodes of node p, in document order
children(doc, p) ==
    SortedSeq({q \in (p + 1)..SubtreeEnd(doc, p) : doc[q].depth = doc[p].depth + 1})

\* soup.find("body"): the first element named body in document order, 0 for None
find_body(doc) ==
    IF \E p \in 1..Len(doc) : doc[p].tag /\ doc[p].name = "body"
    THEN Min({p \in 1..Len(doc) : doc[p].tag /\ doc[p].name = "body"})
    ELSE 0

\* soup.find_all(LANDMARK_TAGS): every element with such a name, in document order
find_all_landmarks(doc) ==
    SortedSeq({p \in 1..Len(doc) : doc[p].tag /\ doc[p].name \in LANDMARK_TAGS})

extract_landmarks(doc) ==
    LET found == find_all_landmarks(doc)
    IN  [x \in 1..Len(found) |-> doc[found[x]].name]

_make_profile(doc, p) ==
    LET id_raw == doc[p].id
        class_raw == doc[p].class
        kids == children(doc, p)
    IN  NodeProfile(doc[p].name,
                    IF id_raw.type = "str" THEN id_raw.val ELSE "",
                    IF class_raw.type = "list" THEN class_raw.val ELSE << >>,
                    Cardinality({x \in 1..Len(kids) : doc[kids[x]].tag}))

\* A slip: the walk continued below the grandchildren
RECURSIVE grandchild_loop_deeper(_, _, _)
grandchild_loop_deeper(doc, gs, n) ==
    IF n > Len(gs) THEN << >>
    ELSE IF ~doc[gs[n]].tag \/ doc[gs[n]].name \in IGNORED_TAGS
    THEN grandchild_loop_deeper(doc, gs, n + 1)
    ELSE << gs[n] >> \o grandchild_loop_deeper(doc, children(doc, gs[n]), 1)
         \o grandchild_loop_deeper(doc, gs, n + 1)

\* The inner loop of extract_skeleton over grandchildren gs[n..]: the nodes profiled
RECURSIVE grandchild_loop(_, _, _)
grandchild_loop(doc, gs, n) ==
    IF n > Len(gs) THEN << >>
    ELSE IF ~doc[gs[n]].tag \/ doc[gs[n]].name \in IGNORED_TAGS
    THEN grandchild_loop(doc, gs, n + 1)
    ELSE << gs[n] >> \o grandchild_loop(doc, gs, n + 1)

\* A slip: the ignored tags not filtered among the body's children
RECURSIVE child_loop_keep_ignored(_, _, _)
child_loop_keep_ignored(doc, cs, n) ==
    IF n > Len(cs) THEN << >>
    ELSE IF ~doc[cs[n]].tag
    THEN child_loop_keep_ignored(doc, cs, n + 1)
    ELSE << cs[n] >> \o grandchild_loop(doc, children(doc, cs[n]), 1)
         \o child_loop_keep_ignored(doc, cs, n + 1)

\* The outer loop of extract_skeleton over body children cs[n..]: the nodes profiled
RECURSIVE child_loop(_, _, _)
child_loop(doc, cs, n) ==
    IF n > Len(cs) THEN << >>
    ELSE IF ~doc[cs[n]].tag \/ doc[cs[n]].name \in IGNORED_TAGS
    THEN child_loop(doc, cs, n + 1)
    ELSE << cs[n] >> \o grandchild_loop(doc, children(doc, cs[n]), 1)
         \o child_loop(doc, cs, n + 1)

\* A slip: without a body, the top-level nodes walked in place of its children
skeleton_nodes_without_body(doc) ==
    LET body == find_body(doc)
        top == SortedSeq({p \in 1..Len(doc) : doc[p].depth = 0})
    IN  IF body = 0 THEN child_loop(doc, top, 1)
        ELSE child_loop(doc, children(doc, body), 1)

\* The nodes extract_skeleton profiles, in the order it appends them
skeleton_nodes(doc) ==
    LET body == find_body(doc)
    IN  IF body = 0 THEN << >> ELSE child_loop(doc, children(doc, body), 1)

extract_skeleton(doc) ==
    LET nodes == skeleton_nodes(doc)
    IN  [x \in 1..Len(nodes) |-> _make_profile(doc, nodes[x])]

---------------------------------------------------------------------------
(* The scorers of differ.py.                                               *)

landmark_diff(old, new) ==
    IF old = << >> /\ new = << >> THEN Zero
    ELSE RSub(One, ratio(SequenceMatcher(old, new)))

\* A slip: the child-count term divided by the old count, not the larger one
node_diff_by_old_count(old, new) ==
    LET tag_diff == IF old.tag = new.tag THEN Zero ELSE One
        old_classes == Range(old.classes)
        new_classes == Range(new.classes)
        class_diff == IF old_classes # {} \/ new_classes # {}
                      THEN RSub(One, Rat(Cardinality(old_classes \cap new_classes),
                                         Cardinality(old_classes \cup new_classes)))
                      ELSE Zero
        id_diff == IF old.id_attr = new.id_attr THEN Zero ELSE One
        child_diff == IF old.child_count > 0 /\ old.child_count >= new.child_count
                      THEN Rat(old.child_count - new.child_count, old.child_count)
                      ELSE IF old.child_count > 0
                      THEN One
                      ELSE Zero
    IN  RAdd(RAdd(RAdd(RMul(tag_diff, TAG_WEIGHT),
                       RMul(class_diff, CLASS_WEIGHT)),
                  RMul(id_diff, ID_WEIGHT)),
             RMul(child_diff, CHILD_COUNT_WEIGHT))

node_diff(old, new) ==
    LET tag_diff == IF old.tag = new.tag THEN Zero ELSE One
        old_classes == Range(old.classes)
        new_classes == Range(new.classes)
        class_diff == IF old_classes # {} \/ new_classes # {}
                      THEN RSub(One, Rat(Cardinality(old_classes \cap new_classes),
                                         Cardinality(old_classes \cup new_classes)))
                      ELSE Zero
        id_diff == IF old.id_attr = new.id_attr THEN Zero ELSE One
        max_children == Max(old.child_count, new.child_count)
        child_diff == IF max_children > 0
                      THEN Rat(Abs(old.child_count - new.child_count), max_children)
                      ELSE Zero
    IN  RAdd(RAdd(RAdd(RMul(tag_diff, TAG_WEIGHT),
                       RMul(class_diff, CLASS_WEIGHT)),
                  RMul(id_diff, ID_WEIGHT)),
             RMul(child_diff, CHILD_COUNT_WEIGHT))

\* The inner loop of the replace branch: what k = lo .. hi - 1 add to
\* total_diff (the range is halved only to keep the evaluation shallow).
RECURSIVE replace_diff(_, _, _, _)
replace_diff(old_slice, new_slice, lo, hi) ==
    IF lo >= hi THEN Zero
    ELSE IF hi - lo = 1
    THEN IF lo < Len(old_slice) /\ lo < Len(new_slice)
         THEN node_diff(old_slice[lo + 1], new_slice[lo + 1])
         ELSE One
    ELSE LET mid == (lo + hi) \div 2
         IN  RAdd(replace_diff(old_slice, new_slice, lo, mid),
                  replace_diff(old_slice, new_slice, mid, hi))

\* A slip: a replace region counted in total_diff but not in total_positions
opcode_step_replace_uncounted(old, new, op, acc) ==
    IF op.tag = "equal"
    THEN <<acc[1], acc[2] + (op.i2 - op.i1)>>
    ELSE IF op.tag = "replace"
    THEN LET old_slice == Slice(old, op.i1, op.i2)
             new_slice == Slice(new, op.j1, op.j2)
             count == Max(Len(old_slice), Len(new_slice))
         IN  <<RAdd(acc[1], replace_diff(old_slice, new_slice, 0, count)), acc[2]>>
    ELSE IF op.tag = "insert"
    THEN <<RAdd(acc[1], Rat(op.j2 - op.j1, 1)), acc[2] + (op.j2 - op.j1)>>
    ELSE IF op.tag = "delete"
    THEN <<RAdd(acc[1], Rat(op.i2 - op.i1, 1)), acc[2] + (op.i2 - op.i1)>>
    ELSE acc

\* What one opcode adds to <<total_diff, total_positions>>
opcode_step(old, new, op, acc) ==
    IF op.tag = "equal"
    THEN <<acc[1], acc[2] + (op.i2 - op.i1)>>
    ELSE IF op.tag = "replace"
    THEN LET old_slice == Slice(old, op.i1, op.i2)
             new_slice == Slice(new, op.j1, op.j2)
             count == Max(Len(old_slice), Len(new_slice))
         IN  <<RAdd(acc[1], replace_diff(old_slice, new_slice, 0, count)), acc[2] + count>>
    ELSE IF op.tag = "insert"
    THEN <<RAdd(acc[1], Rat(op.j2 - op.j1, 1)), acc[2] + (op.j2 - op.j1)>>
    ELSE IF op.tag = "delete"
    THEN <<RAdd(acc[1], Rat(op.i2 - op.i1, 1)), acc[2] + (op.i2 - op.i1)>>
    ELSE acc

\* The loop of skeleton_diff over the opcodes from n on
RECURSIVE skeleton_totals(_, _, _, _, _)
skeleton_totals(old, new, ops, n, acc) ==
    IF n > Len(ops) THEN acc
    ELSE skeleton_totals(old, new, ops, n + 1, opcode_step(old, new, ops[n], acc))

\* <<total_diff, total_positions>> when the loop of skeleton_diff ends
skeleton_accumulators(old, new) ==
    skeleton_totals(old, new, get_opcodes(SequenceMatcher(old, new)), 1, <<Zero, 0>>)

skeleton_diff(old, new) ==
    IF old = << >> /\ new = << >> THEN Zero
    ELSE IF old = << >> \/ new = << >> THEN One
    ELSE LET totals == skeleton_accumulators(old, new)
         IN  IF totals[2] > 0
             THEN Rat(totals[1][1], totals[1][2] * totals[2])
             ELSE Zero

\* The return value of diff_score
blend(l, s) == RAdd(RMul(l, LANDMARK_WEIGHT), RMul(s, SKELETON_WEIGHT))

\* A slip: the first threshold not strict
interpret_score_inclusive(sc) ==
    IF RLe(Rat(40, 100), sc) THEN "Major structural rewrite detected"
    ELSE IF RLt(Rat(15, 100), sc) THEN "Significant layout modifications detected"
    ELSE "Minor structural changes"

interpret_score(sc) ==
    IF RLt(Rat(40, 100), sc) THEN "Major structural rewrite detected"
    ELSE IF RLt(Rat(15, 100), sc) THEN "Significant layout modifications detected"
    ELSE "Minor structural changes"

---------------------------------------------------------------------------
(* The steps of diff_score and main.                                       *)

\* A value not computed yet
Unset == << >>

\* diff_score, line 168: the arguments of landmark_diff
ExtractLandmarks ==
    /\ pc = "parsed"
    /\ oldL' = extract_landmarks(oldDoc)
    /\ newL' = extract_landmarks(newDoc)
    /\ pc' = "landmarks"
    /\ UNCHANGED <<oldDoc, newDoc, oldS, newS, l_diff, s_diff, score, label>>

LandmarkDiffStep(from, to) ==
    /\ pc = from
    /\ l_diff' = landmark_diff(oldL, newL)
    /\ pc' = to
    /\ UNCHANGED <<oldDoc, newDoc, oldL, newL, oldS, newS, s_diff, score, label>>

LandmarkDiff == LandmarkDiffStep("landmarks", "l_diff")

\* diff_score, line 171: the arguments of skeleton_diff
ExtractSkeleton ==
    /\ pc = "l_diff"
    /\ oldS' = extract_skeleton(oldDoc)
    /\ newS' = extract_skeleton(newDoc)
    /\ pc' = "skeletons"
    /\ UNCHANGED <<oldDoc, newDoc, oldL, newL, l_diff, s_diff, score, label>>

SkeletonDiff ==
    /\ pc = "skeletons"
    /\ s_diff' = skeleton_diff(oldS, newS)
    /\ pc' = "s_diff"
    /\ UNCHANGED <<oldDoc, newDoc, oldL, newL, oldS, newS, l_diff, score, label>>

\* diff_score, line 175
Blend ==
    /\ pc = "s_diff"
    /\ score' = blend(l_diff, s_diff)
    /\ pc' = "scored"
    /\ UNCHANGED <<oldDoc, newDoc, oldL, newL, oldS, newS, l_diff, s_diff, label>>

\* main, line 43
Interpret ==
    /\ pc = "scored"
    /\ label' = interpret_score(score)
    /\ pc' = "done"
    /\ UNCHANGED <<oldDoc, newDoc, oldL, newL, oldS, newS, l_diff, s_diff, score>>

---------------------------------------------------------------------------
(* SpecDoc: diff_score on two parsed documents.                            *)

\* The documents the other argument is drawn from: an empty document and a
\* body holding one section
PartnerDocs ==
    { << >>,
      << AtDepth(Element("body", NoAttr, NoAttr), 0),
         AtDepth(Element("section", StrAttr("s"), ListAttr(<<"a", "b">>)), 1) >> }

InitDoc ==
    /\ \E d \in Docs, e \in PartnerDocs :
          \/ oldDoc = d /\ newDoc = e
          \/ oldDoc = e /\ newDoc = d
    /\ oldL = Unset /\ newL = Unset /\ oldS = Unset /\ newS = Unset
    /\ l_diff = Unset /\ s_diff = Unset /\ score = Unset
    /\ label = ""
    /\ pc = "parsed"

NextDoc ==
    \/ ExtractLandmarks
    \/ LandmarkDiff
    \/ ExtractSkeleton
    \/ SkeletonDiff
    \/ Blend
    \/ Interpret

SpecDoc == InitDoc /\ [][NextDoc]_vars

---------------------------------------------------------------------------
(* Spec: landmark_diff, skeleton_diff, the blend and interpret_score       *)
(* applied to landmark and skeleton sequences given directly.              *)

\* The documents behind directly given sequences are not represented
NotModelled == << >>

\* The largest total length of a pair of the exhaustive family
MaxTotal == 5

SeqsUpTo(S, n) == UNION { [1..k -> S] : k \in 0..n }

\* Every pair of sequences over S of total length at most n
PairsUpTo(S, n) ==
    UNION { { <<a, b>> : b \in SeqsUpTo(S, n - Len(a)) } : a \in SeqsUpTo(S, n) }

RemoveAt(s, p) == [x \in 1..(Len(s) - 1) |-> IF x < p THEN s[x] ELSE s[x + 1]]

Rep(x, n) == [k \in 1..n |-> x]

LandmarkAlphabet == {"header", "main", "footer"}

PDiv == NodeProfile("div", "", << >>, 0)

PMain == NodeProfile("main", "m", <<"c">>, 2)

PAB == NodeProfile("div", "", <<"a", "b">>, 1)

PBA == NodeProfile("div", "", <<"b", "a">>, 1)

Profiles == {PMain, PAB, PBA}

\* Every short pair, and every sequence against itself
LandmarkPairs ==
    PairsUpTo(LandmarkAlphabet, MaxTotal)
    \cup { <<s, s>> : s \in SeqsUpTo(LandmarkAlphabet, MaxTotal) }

\* Every short pair, every skeleton against itself, and every removal of one
\* profile from a skeleton
SkeletonPairs ==
    PairsUpTo(Profiles, MaxTotal)
    \cup { <<s, s>> : s \in SeqsUpTo(Profiles, MaxTotal) }
    \cup { <<s, RemoveAt(s, p)>> : s \in [1..(MaxTotal - 1) -> Profiles], p \in 1..(MaxTotal - 1) }

\* Sequences long enough for the autojunk heuristic of SequenceMatcher
LargeLandmarks ==
    { Rep("section", AutojunkMinLen),
      <<"main">> \o Rep("section", AutojunkMinLen) }

LargeSkeletons ==
    { Rep(PAB, AutojunkMinLen),
      Rep(PAB, AutojunkMinLen - 1),
      <<PMain>> \o Rep(PAB, AutojunkMinLen),
      Rep(PAB, AutojunkMinLen) \o <<PMain, PAB>> }

NoPair == << << >>, << >> >>

\* The other axis while one axis ranges over its pairs: sub-score 0 and sub-score 1
FewLandmarkPairs == { NoPair, << <<"main">>, <<"header">> >> }

FewSkeletonPairs == { NoPair, << <<PDiv>>, <<PMain>> >> }

Inputs ==
    (LandmarkPairs \X FewSkeletonPairs)
    \cup (FewLandmarkPairs \X SkeletonPairs)
    \cup ((LargeLandmarks \X LargeLandmarks) \X {NoPair})
    \cup ({NoPair} \X (LargeSkeletons \X LargeSkeletons))

Init ==
    /\ \E in \in Inputs :
          /\ oldL = in[1][1] /\ newL = in[1][2]
          /\ oldS = in[2][1] /\ newS = in[2][2]
    /\ oldDoc = NotModelled /\ newDoc = NotModelled
    /\ l_diff = Unset /\ s_diff = Unset /\ score = Unset
    /\ label = ""
    /\ pc = "args"

CallLandmarkDiff == LandmarkDiffStep("args", "skeletons")

Next ==
    \/ CallLandmarkDiff
    \/ SkeletonDiff
    \/ Blend
    \/ Interpret

Spec == Init /\ [][Next]_vars

---------------------------------------------------------------------------
(* Vocabulary of the properties.                                           *)

NoRepeats(s) == \A x, y \in DOMAIN s : s[x] = s[y] => x = y

\* The elements two sequences share come in the same order in both
SameOrder(a, b) ==
    \A x1, x2 \in DOMAIN a : \A y1, y2 \in DOMAIN b :
        (x1 < x2 /\ a[x1] = b[y1] /\ a[x2] = b[y2]) => y1 < y2

Unambiguous(a, b) == NoRepeats(a) /\ NoRepeats(b) /\ SameOrder(a, b)

IsSingleDeletion(old, new) ==
    /\ Len(old) >= 2
    /\ \E p \in DOMAIN old : new = RemoveAt(old, p)

InUnit(r) == RLe(Zero, r) /\ RLe(r, One)

\* The opcodes partition [0, n) and [0, m), in increasing index order
Partitions(ops, n, m) ==
    /\ ops = << >> => (n = 0 /\ m = 0)
    /\ ops # << >> =>
         /\ ops[1].i1 = 0 /\ ops[1].j1 = 0
         /\ ops[Len(ops)].i2 = n /\ ops[Len(ops)].j2 = m
    /\ \A x \in 1..(Len(ops) - 1) :
         ops[x + 1].i1 = ops[x].i2 /\ ops[x + 1].j1 = ops[x].j2
    /\ \A x \in DOMAIN ops :
         /\ ops[x].i1 <= ops[x].i2 /\ ops[x].j1 <= ops[x].j2
         /\ ops[x].i1 < ops[x].i2 \/ ops[x].j1 < ops[x].j2
         /\ ops[x].tag \in {"equal", "replace", "insert", "delete"}
         /\ ops[x].tag = "equal" => ops[x].i2 - ops[x].i1 = ops[x].j2 - ops[x].j1
         /\ ops[x].tag = "replace" => (ops[x].i1 < ops[x].i2 /\ ops[x].j1 < ops[x].j2)
         /\ ops[x].tag = "insert" => ops[x].i1 = ops[x].i2
         /\ ops[x].tag = "delete" => ops[x].j1 = ops[x].j2

\* Every Equal region pairs equal elements
EqualRegionsMatch(ops, a, b) ==
    \A x \in DOMAIN ops :
        ops[x].tag = "equal" =>
            \A k \in 0..(ops[x].i2 - ops[x].i1 - 1) :
                a[ops[x].i1 + k + 1] = b[ops[x].j1 + k + 1]

RECURSIVE EqualLength(_, _)
EqualLength(ops, n) ==
    IF n > Len(ops) THEN 0
    ELSE (IF ops[n].tag = "equal" THEN ops[n].i2 - ops[n].i1 ELSE 0)
         + EqualLength(ops, n + 1)

AlignmentComplete(a, b) ==
    LET m == SequenceMatcher(a, b)
        ops == get_opcodes(m)
    IN  /\ Partitions(ops, Len(a), Len(b))
        /\ EqualRegionsMatch(ops, a, b)
        /\ Rat(2 * EqualLength(ops, 1), 1) = RMul(ratio(m), Rat(Len(a) + Len(b), 1))

\* The class tokens of every profile written in one fixed order, once each
TokenOrder == <<"a", "b", "c">>

InTokenOrder(classes) ==
    LET keep(t) == t \in Range(classes) IN SelectSeq(TokenOrder, keep)

ClassesAsSets(s) ==
    [x \in DOMAIN s |->
        NodeProfile(s[x].tag, s[x].id_attr, InTokenOrder(s[x].classes), s[x].child_count)]

\* The parent of node p, 0 for a node at the top
parent(doc, p) ==
    IF \E q \in 1..(p - 1) : doc[q].depth < doc[p].depth
    THEN CHOOSE q \in 1..(p - 1) :
            /\ doc[q].depth = doc[p].depth - 1
            /\ \A r \in (q + 1)..(p - 1) : doc[r].depth >= doc[p].depth
    ELSE 0

Shown(doc, p) == doc[p].tag /\ doc[p].name \notin IGNORED_TAGS

\* The elements of the two levels below body that no ignored tag hides
TwoLevels(doc) ==
    LET body == find_body(doc)
    IN  { p \in 1..Len(doc) :
            /\ body # 0
            /\ Shown(doc, p)
            /\ \/ parent(doc, p) = body
               \/ /\ parent(doc, p) # 0
                  /\ parent(doc, parent(doc, p)) = body
                  /\ Shown(doc, parent(doc, p)) }

---------------------------------------------------------------------------
(* The properties.                                                         *)

\* C1, as stated: diff_score, landmark_diff and skeleton_diff give the same
\* value with their two arguments exchanged, for all sequences.
C1_Symmetry ==
    /\ l_diff # Unset => l_diff = landmark_diff(newL, oldL)
    /\ s_diff # Unset => s_diff = skeleton_diff(newS, oldS)
    /\ score # Unset =>
         score = blend(landmark_diff(newL, oldL), skeleton_diff(newS, oldS))

\* C1, amended: exchanging the arguments leaves landmark_diff, skeleton_diff
\* and the blended score unchanged when neither sequence repeats an element
\* and the elements the two share come in the same order in both.
C1_SymmetryUnambiguous ==
    /\ (l_diff # Unset /\ Unambiguous(oldL, newL)) => l_diff = landmark_diff(newL, oldL)
    /\ (s_diff # Unset /\ Unambiguous(oldS, newS)) => s_diff = skeleton_diff(newS, oldS)
    /\ (score # Unset /\ Unambiguous(oldL, newL) /\ Unambiguous(oldS, newS)) =>
         score = blend(landmark_diff(newL, oldL), skeleton_diff(newS, oldS))

C1_Witness ==
    /\ pc = "done"
    /\ Unambiguous(oldS, newS)
    /\ Len(oldS) = 2 /\ Len(newS) = 2
    /\ \E x \in DOMAIN oldS : \E y \in DOMAIN newS : oldS[x] = newS[y]
    /\ \E y \in DOMAIN newS : \A x \in DOMAIN oldS : oldS[x] # newS[y]
    /\ RLt(Zero, s_diff) /\ RLt(s_diff, One)
    /\ s_diff = skeleton_diff(newS, oldS)

AlignedWithItself(s) ==
    get_opcodes(SequenceMatcher(s, s)) =
        IF s = << >> THEN << >> ELSE << Opcode("equal", 0, Len(s), 0, Len(s)) >>

\* C2: a document against itself scores exactly 0: every sequence aligned
\* with itself is one Equal region (none when it is empty), landmark_diff and
\* skeleton_diff of it with itself are 0, and so is the blend.
C2_Identity ==
    /\ pc = "done" =>
         /\ AlignedWithItself(oldL) /\ AlignedWithItself(oldS)
         /\ landmark_diff(oldL, oldL) = Zero
         /\ skeleton_diff(oldS, oldS) = Zero
         /\ blend(landmark_diff(oldL, oldL), skeleton_diff(oldS, oldS)) = Zero
    /\ (oldL = newL /\ l_diff # Unset) => l_diff = Zero
    /\ (oldS = newS /\ s_diff # Unset) => s_diff = Zero
    /\ (oldL = newL /\ oldS = newS /\ score # Unset) => score = Zero

C2_Witness ==
    /\ pc = "done"
    /\ oldL = newL /\ oldS = newS
    /\ Len(oldS) = 3 /\ oldS[1] = oldS[3] /\ oldS[1] # oldS[2]
    /\ s_diff = Zero /\ score = Zero

\* C3: every score lies in [0, 1]: node_diff of any two profiles, the
\* landmark and skeleton sub-scores and the blended score; the diff
\* accumulator of skeleton_diff never exceeds its position accumulator; the
\* two blend weights sum to 1.
C3_Bounds ==
    /\ pc = "done" =>
         /\ \A p \in Range(oldS) \cup Range(newS) : \A q \in Range(oldS) \cup Range(newS) :
              InUnit(node_diff(p, q))
         /\ LET totals == skeleton_accumulators(oldS, newS)
            IN  RLe(Zero, totals[1]) /\ RLe(totals[1], Rat(totals[2], 1))
    /\ RAdd(LANDMARK_WEIGHT, SKELETON_WEIGHT) = One
    /\ l_diff # Unset => InUnit(l_diff)
    /\ s_diff # Unset => InUnit(s_diff)
    /\ score # Unset => InUnit(score)

C3_Witness ==
    /\ pc = "done"
    /\ score = One
    /\ oldS # << >> /\ newS # << >>

\* C4: the opcodes of the aligner are in increasing index order and
\* partition [0, n) and [0, m) without gap or overlap, every Equal region
\* pairs equal elements, and the Equal lengths sum to ratio * (n + m) / 2.
C4_AlignmentComplete ==
    pc = "done" => AlignmentComplete(oldL, newL) /\ AlignmentComplete(oldS, newS)

C4_Witness ==
    /\ pc = "done"
    /\ LET ops == get_opcodes(SequenceMatcher(oldS, newS))
       IN  /\ Len(ops) >= 3
           /\ \E x \in DOMAIN ops : ops[x].tag = "equal"
           /\ \E x \in DOMAIN ops : ops[x].tag = "replace"
           /\ \E x \in DOMAIN ops : ops[x].tag = "delete"

\* C5, as stated: profiles that differ only in the order or repetition of
\* their class tokens are equal, so skeleton_diff is what it would be with
\* the tokens of every profile written in one order.
C5_ClassesAsSets ==
    s_diff # Unset => s_diff = skeleton_diff(ClassesAsSets(oldS), ClassesAsSets(newS))

\* The skeletons have been extracted
Extracted == pc \in {"skeletons", "s_diff", "scored", "done"}

\* Every profile of the skeleton is of an element with no ignored tag whose
\* parent has no ignored tag either
IgnoredExcluded(doc, skeleton) ==
    /\ Len(skeleton) = Len(skeleton_nodes(doc))
    /\ \A x \in DOMAIN skeleton : skeleton[x].tag \notin IGNORED_TAGS
    /\ \A p \in Range(skeleton_nodes(doc)) :
         /\ doc[p].name \notin IGNORED_TAGS
         /\ parent(doc, p) # 0
         /\ doc[parent(doc, p)].name \notin IGNORED_TAGS

\* C6: no element with an ignored tag is profiled, whether a child or a
\* grandchild of body, and nothing is profiled below an ignored element.
C6_IgnoredExcluded ==
    Extracted => IgnoredExcluded(oldDoc, oldS) /\ IgnoredExcluded(newDoc, newS)

C6_Witness ==
    /\ pc = "skeletons"
    /\ \E p, q \in DOMAIN oldDoc :
         /\ p = find_body(oldDoc)
         /\ \E r \in DOMAIN oldDoc :
              /\ parent(oldDoc, r) = p /\ oldDoc[r].name = "script"
              /\ parent(oldDoc, q) = r /\ oldDoc[q].name = "section"
    /\ oldS = << >>

\* C7: a document without body has an empty skeleton; skeleton_diff of a
\* non-empty skeleton and an empty one is 1 in either order; skeleton_diff and
\* landmark_diff of two empty sequences are 0; two documents with no body and
\* no landmark score 0.
C7_Emptiness ==
    /\ (Extracted /\ find_body(oldDoc) = 0) => oldS = << >>
    /\ (Extracted /\ find_body(newDoc) = 0) => newS = << >>
    /\ (Extracted /\ ((oldS = << >>) # (newS = << >>))) =>
         /\ skeleton_diff(oldS, newS) = One
         /\ skeleton_diff(newS, oldS) = One
         /\ s_diff # Unset => s_diff = One
    /\ (Extracted /\ oldS = << >> /\ newS = << >> /\ s_diff # Unset) => s_diff = Zero
    /\ (l_diff # Unset /\ oldL = << >> /\ newL = << >>) => l_diff = Zero
    /\ ( /\ score # Unset
         /\ find_body(oldDoc) = 0 /\ find_body(newDoc) = 0
         /\ find_all_landmarks(oldDoc) = << >> /\ find_all_landmarks(newDoc) = << >> ) =>
         score = Zero

C7_Witness ==
    /\ pc = "done"
    /\ find_body(oldDoc) = 0 /\ oldDoc # << >>
    /\ oldS = << >> /\ newS # << >>
    /\ s_diff = One

\* The skeleton is the profiles of the elements of the two levels below body,
\* in document order
SkeletonOf(doc, skeleton) ==
    /\ skeleton_nodes(doc) = SortedSeq(TwoLevels(doc))
    /\ skeleton = [x \in 1..Len(skeleton_nodes(doc)) |->
                      _make_profile(doc, skeleton_nodes(doc)[x])]

\* C8: extract_skeleton returns the profiles of exactly the elements of the
\* two levels below body (an ignored element and what is below it left out),
\* in document order, each body child followed by its own children.
C8_SkeletonOrderDepth ==
    Extracted => SkeletonOf(oldDoc, oldS) /\ SkeletonOf(newDoc, newS)

C8_Witness ==
    /\ pc = "skeletons"
    /\ find_body(oldDoc) = 1
    /\ Len(oldDoc) = 4
    /\ oldDoc[2].depth = 1 /\ oldDoc[3].depth = 2 /\ oldDoc[4].depth = 3
    /\ oldDoc[4].tag
    /\ Len(oldS) = 2

\* C9: the label is the major one iff score > 0.40, the significant one iff
\* 0.15 < score <= 0.40, the minor one iff score <= 0.15.
C9_Thresholds ==
    pc = "done" =>
        /\ label = "Major structural rewrite detected" <=> RLt(Rat(40, 100), score)
        /\ label = "Significant layout modifications detected" <=>
              (RLt(Rat(15, 100), score) /\ RLe(score, Rat(40, 100)))
        /\ label = "Minor structural changes" <=> RLe(score, Rat(15, 100))

C9_Witness ==
    /\ pc = "done"
    /\ score = Rat(40, 100)
    /\ label = "Significant layout modifications detected"

\* C10, as stated: removing one profile from a skeleton of n >= 2 profiles
\* scores 1/n, repeated profiles allowed.
C10_SingleDeletion ==
    (IsSingleDeletion(oldS, newS) /\ s_diff # Unset) => s_diff = Rat(1, Len(oldS))

\* C10, amended: removing one profile from a skeleton of n >= 2 pairwise
\* distinct profiles scores 1/n: one Delete region of length 1, Equal regions
\* over the other n - 1 positions.
C10_SingleDeletionDistinct ==
    (IsSingleDeletion(oldS, newS) /\ NoRepeats(oldS)) =>
        LET ops == get_opcodes(SequenceMatcher(oldS, newS))
        IN  /\ \A x \in DOMAIN ops : ops[x].tag \in {"equal", "delete"}
            /\ Cardinality({x \in DOMAIN ops : ops[x].tag = "delete"}) = 1
            /\ \A x \in DOMAIN ops : ops[x].tag = "delete" => ops[x].i2 - ops[x].i1 = 1
            /\ EqualLength(ops, 1) = Len(oldS) - 1
            /\ s_diff # Unset => s_diff = Rat(1, Len(oldS))

C10_Witness ==
    /\ pc = "done"
    /\ Len(oldS) = 3 /\ NoRepeats(oldS)
    /\ newS = RemoveAt(oldS, 2)
    /\ s_diff = Rat(1, 3)

=============================================================================
